---- MODULE Spec2Model ----
(***************************************************************************)
(* Model of the Polaris resolver for Kitex.                                *)
(*                                                                         *)
(*   src/resolver.go       polarisResolver: Target, Watcher, Resolve       *)
(*   src/unnamed/part_000  PolarisResolver: Target, Resolve, doHeartbeat   *)
(*                                                                         *)
(* Go strings are sequences of one-character strings, so that building an  *)
(* address or a description and splitting it again are real computations.  *)
(* A Go local that has not been assigned holds its zero value, as in Go.   *)
(***************************************************************************)
EXTENDS Integers, Sequences, FiniteSets, TLC

VARIABLES
    resolver,      \* the fields of the constructed resolvers
    proc,          \* the process: "running", "exited" (os.Exit) or "panicked"
    op,            \* op[c]: the method invocation c runs
    pc,            \* pc[c]: where invocation c is
    target,        \* target[c]: the descriptor the caller resolved into desc
    desc,          \* desc[c]: the desc argument
    ctxDone,       \* ctxDone[c]: ctx.Done() of the invocation's context is closed
    requests,      \* requests[c]: the registry requests the invocation has issued
    response,      \* response[c]: what the registry answered (InstanceResp / watchRsp)
    eventChannel,  \* eventChannel[c]: watchRsp.EventChannel of the invocation's subscription
    reported,      \* reported[c]: instance records the registry has reported to the invocation
    result,        \* result[c]: Watcher's local result (resolver.go:110)
    event,         \* event[c]: Watcher's local event (resolver.go:121)
    consumed,      \* consumed[c]: events the invocation has received from its channel
    ret,           \* ret[c]: the returned value (a discovery.Result or a discovery.Change)
    retErr,        \* retErr[c]: the returned error
    hbPc,          \* doHeartbeat: "none" (not started), "loop" or "returned"
    hbCtxDone,     \* doHeartbeat: ctx.Done() of its context is closed
    ins,           \* doHeartbeat: the registration request its argument ins points to
    heartbeat,     \* doHeartbeat: its local heartbeat (part_000:144)
    tickerC,       \* doHeartbeat: ticks waiting in ticker.C, a channel of capacity one
    sent           \* the calls of provider.Heartbeat so far

\* the state of doHeartbeat
heartbeatVars == <<hbPc, hbCtxDone, ins, heartbeat, tickerC, sent>>

\* the state of the invocations of Resolve and Watcher
callVars == <<proc, op, pc, target, desc, ctxDone, requests, response, eventChannel, reported,
              result, event, consumed, ret, retErr>>

vars == <<resolver, proc, op, pc, target, desc, ctxDone, requests, response, eventChannel, reported,
          result, event, consumed, ret, retErr, hbPc, hbCtxDone, ins, heartbeat, tickerC, sent>>

-----------------------------------------------------------------------------
(* Bounds of the model *)

\* invocation slots (goroutines calling into the resolver)
MaxCalls == 2
\* instance records the registry reports to one invocation: in its answer, or in
\* the snapshot and the events of its subscription
MaxInstances == 2
\* events queued on one event channel
MaxQueued == 2
\* largest raw weight of the translation specification
MaxWeight == 12
\* heartbeats one heartbeat loop sends
MaxHeartbeats == 3

Calls == 1..MaxCalls

-----------------------------------------------------------------------------
(* Strings *)

Colon == <<":">>
EmptyString == <<>>

Digits == <<"0", "1", "2", "3", "4", "5", "6", "7", "8", "9">>

\* strconv.Itoa of a non-negative int
RECURSIVE Itoa(_)
Itoa(n) == IF n < 10 THEN <<Digits[n + 1]>>
           ELSE Itoa(n \div 10) \o <<Digits[(n % 10) + 1]>>

Host1 == <<"1", "0", ".", "0", ".", "0", ".", "1">>
Host2 == <<"1", "0", ".", "0", ".", "0", ".", "2">>
Host3 == <<"1", "0", ".", "0", ".", "0", ".", "3">>

SvcOrders == <<"o", "r", "d", "e", "r", "s">>
SvcGhost == <<"g", "h", "o", "s", "t">>
NsTest == <<"t", "e", "s", "t">>

-----------------------------------------------------------------------------
(* Constants of the program *)

defaultWeight == 10

polarisDefaultNamespace == <<"d", "e", "f", "a", "u", "l", "t">>

PolarisDefaultNamespace == <<"d", "e", "f", "a", "u", "l", "t">>

\* api.EventInstance, and any other kind of model.SubScribeEvent
EventInstance == "EventInstance"
EventOther == "EventOther"

-----------------------------------------------------------------------------
(* Values of the registry client: raw instances, answers, events *)

RawInstance(h, p, w, proto) == [Host |-> h, Port |-> p, Weight |-> w, Protocol |-> proto]

Inst1 == RawInstance(Host1, 8080, 0, "tcp")
Inst2 == RawInstance(Host2, 8080, 5, "tcp")
Inst3 == RawInstance(Host3, 9090, -1, "grpc")

RawInstances == {Inst1, Inst2, Inst3}

\* sequences over S of length lo..hi
SeqsOf(S, lo, hi) == UNION {[1..k -> S] : k \in lo..hi}

\* a Go slice of instances: nil, or a list
NilSlice == [isNil |-> TRUE, elems |-> <<>>]
SliceOf(s) == [isNil |-> FALSE, elems |-> s]
InstanceSlices == {NilSlice} \cup {SliceOf(s) : s \in SeqsOf(RawInstances, 0, MaxInstances)}

\* what GetInstances / WatchService answer: (nil, err), or a response with Instances
ErrorAnswer == [err |-> TRUE, Instances |-> NilSlice]
OkAnswer(s) == [err |-> FALSE, Instances |-> s]
Answers == {ErrorAnswer} \cup {OkAnswer(s) : s \in InstanceSlices}
NoAnswer == [err |-> FALSE, Instances |-> NilSlice]

\* model.OneInstanceUpdate: the instance before and after; the registry reports an
\* update of one instance, here with its weight changed
UpdateOf(after) == [Before |-> [after EXCEPT !.Weight = @ + 1], After |-> after]
Updates == {UpdateOf(i) : i \in RawInstances}

\* a sub-event pointer of model.InstanceEvent: nil, or a non-empty list
NoSubEvent == [isNil |-> TRUE, elems |-> <<>>]
SubEvents(S, n) == {NoSubEvent} \cup {SliceOf(s) : s \in SeqsOf(S, 1, n)}

EventSize(ev) == Len(ev.AddEvent.elems) + Len(ev.UpdateEvent.elems) + Len(ev.DeleteEvent.elems)

OtherEvent == [kind |-> EventOther, AddEvent |-> NoSubEvent,
               UpdateEvent |-> NoSubEvent, DeleteEvent |-> NoSubEvent]

InstanceEvents ==
    {ev \in [kind : {EventInstance},
             AddEvent : SubEvents(RawInstances, MaxInstances),
             UpdateEvent : SubEvents(Updates, MaxInstances),
             DeleteEvent : SubEvents(RawInstances, MaxInstances)] :
        EventSize(ev) <= MaxInstances}

Events == {OtherEvent} \cup InstanceEvents
NoEvent == [kind |-> "none", AddEvent |-> NoSubEvent,
            UpdateEvent |-> NoSubEvent, DeleteEvent |-> NoSubEvent]

-----------------------------------------------------------------------------
(* Values of the discovery package *)

NoTags == <<>>

\* discovery.NewInstance(network, address, weight, tags)
NewInstance(network, address, weight, tags) ==
    [Network |-> network, Address |-> address, Weight |-> weight, Tags |-> tags]

\* discovery.Result{} and discovery.Change{}
ZeroResult == [Cacheable |-> FALSE, CacheKey |-> EmptyString, Instances |-> <<>>]
ZeroChange == [Result |-> ZeroResult, Added |-> <<>>, Updated |-> <<>>, Removed |-> <<>>]

\* a returned value before the invocation has returned
NoReturn == [isChange |-> FALSE, Result |-> ZeroResult, Added |-> <<>>,
             Updated |-> <<>>, Removed |-> <<>>]
ReturnResult(r) == [isChange |-> FALSE, Result |-> r, Added |-> <<>>,
                    Updated |-> <<>>, Removed |-> <<>>]
ReturnChange(ch) == [isChange |-> TRUE, Result |-> ch.Result, Added |-> ch.Added,
                     Updated |-> ch.Updated, Removed |-> ch.Removed]

\* errors: nil, and fmt.Errorf("no instance remains for %s", desc)
NilError == [isNil |-> TRUE, kind |-> "nil", desc |-> EmptyString]
NoInstancesError(d) == [isNil |-> FALSE, kind |-> "no instance remains for", desc |-> d]

-----------------------------------------------------------------------------
(* Pure functions *)

\* an rpcinfo.EndpointInfo as Target reads it: ServiceName() and Tag("namespace")
Descriptor(name, ok, ns) == [ServiceName |-> name, hasNamespace |-> ok, namespace |-> ns]

\* polarisResolver.Target
polarisResolver_Target(t) ==
    (IF t.hasNamespace THEN t.namespace ELSE polarisDefaultNamespace)
        \o Colon \o t.ServiceName

\* PolarisResolver.Target
PolarisResolver_Target(t) == t.ServiceName

\* position of the first ":" of s, 0 when there is none
RECURSIVE FirstColonFrom(_, _)
FirstColonFrom(s, i) ==
    IF i > Len(s) THEN 0
    ELSE IF s[i] = ":" THEN i ELSE FirstColonFrom(s, i + 1)

\* SplitDescription: the namespace and the service name of a description, split on
\* its first ":"
SplitDescription(description) ==
    LET i == FirstColonFrom(description, 1) IN
    IF i = 0 THEN [namespace |-> description, serviceName |-> EmptyString]
    ELSE [namespace |-> SubSeq(description, 1, i - 1),
          serviceName |-> SubSeq(description, i + 1, Len(description))]

\* ChangePolarisInstanceToKitex: host, port, protocol and weight of the raw record;
\* address host:port; a weight <= 0 becomes the default weight
ChangePolarisInstanceToKitex(instance) ==
    NewInstance(instance.Protocol,
                instance.Host \o Colon \o Itoa(instance.Port),
                IF instance.Weight <= 0 THEN defaultWeight ELSE instance.Weight,
                NoTags)

\* the weight rule with the zero weight let through
PolarisResolver_weight_strict(weight) == IF weight < 0 THEN defaultWeight ELSE weight

\* PolarisResolver.Resolve, the weight of one instance
PolarisResolver_weight(weight) == IF weight <= 0 THEN defaultWeight ELSE weight

\* PolarisResolver.Resolve, the address of one instance
PolarisResolver_addr(instance) == instance.Host \o Colon \o Itoa(instance.Port)

\* PolarisResolver.Resolve, the body of the loop: one instance to one endpoint
\* (info.Tags is the nil map of the zero instanceInfo)
PolarisResolver_instance(instance) ==
    NewInstance(instance.Protocol, PolarisResolver_addr(instance),
                PolarisResolver_weight(instance.Weight), NoTags)

\* PolarisResolver.Resolve: eps after the loop over the answer's instances
PolarisResolver_eps(instances) ==
    IF instances.isNil THEN <<>>
    ELSE [i \in 1..Len(instances.elems) |-> PolarisResolver_instance(instances.elems[i])]

\* the loop of Resolve prepending instead of appending
Resolve_eps_reversed(instances) ==
    IF instances.isNil THEN <<>>
    ELSE [i \in 1..Len(instances.elems) |->
            ChangePolarisInstanceToKitex(instances.elems[Len(instances.elems) + 1 - i])]

\* polarisResolver.Resolve: eps after the loop over the answer's instances
Resolve_eps(instances) ==
    IF instances.isNil THEN <<>>
    ELSE [i \in 1..Len(instances.elems) |-> ChangePolarisInstanceToKitex(instances.elems[i])]

\* polarisResolver.Watcher: eps after the loop over the snapshot's instances
Watcher_eps(instances) ==
    IF instances.isNil THEN <<>>
    ELSE [i \in 1..Len(instances.elems) |-> ChangePolarisInstanceToKitex(instances.elems[i])]

\* polarisResolver.Watcher: the local result
Watcher_result(d, eps) == [Cacheable |-> TRUE, CacheKey |-> d, Instances |-> eps]

\* Resolve without its test for an empty eps
Resolve_return_unchecked(d, eps) ==
    [ret |-> [Cacheable |-> TRUE, CacheKey |-> d, Instances |-> eps], err |-> NilError]

\* the return statements of Resolve (both resolvers end alike)
Resolve_return(d, eps) ==
    IF Len(eps) = 0
    THEN [ret |-> ZeroResult, err |-> NoInstancesError(d)]
    ELSE [ret |-> [Cacheable |-> TRUE, CacheKey |-> d, Instances |-> eps], err |-> NilError]

PolarisResolver_return(d, eps) ==
    IF Len(eps) = 0
    THEN [ret |-> ZeroResult, err |-> NoInstancesError(d)]
    ELSE [ret |-> [Cacheable |-> TRUE, CacheKey |-> d, Instances |-> eps], err |-> NilError]

\* polarisResolver.Watcher: add, update and remove of an instance event
Watcher_add(insEvent) ==
    IF insEvent.AddEvent.isNil THEN <<>>
    ELSE [i \in 1..Len(insEvent.AddEvent.elems) |->
            ChangePolarisInstanceToKitex(insEvent.AddEvent.elems[i])]

\* the update list read at Before instead of After
Watcher_update_before(insEvent) ==
    IF insEvent.UpdateEvent.isNil THEN <<>>
    ELSE [i \in 1..Len(insEvent.UpdateEvent.elems) |->
            ChangePolarisInstanceToKitex(insEvent.UpdateEvent.elems[i].Before)]

Watcher_update(insEvent) ==
    IF insEvent.UpdateEvent.isNil THEN <<>>
    ELSE [i \in 1..Len(insEvent.UpdateEvent.elems) |->
            ChangePolarisInstanceToKitex(insEvent.UpdateEvent.elems[i].After)]

Watcher_remove(insEvent) ==
    IF insEvent.DeleteEvent.isNil THEN <<>>
    ELSE [i \in 1..Len(insEvent.DeleteEvent.elems) |->
            ChangePolarisInstanceToKitex(insEvent.DeleteEvent.elems[i])]

\* the ctx.Done() branch returning the snapshot
Watcher_Change_done_snapshot(res) == [ZeroChange EXCEPT !.Result = res]

\* polarisResolver.Watcher: the Change returned by the ctx.Done() branch
Watcher_Change_done(res) == ZeroChange

\* the event branch folding the added instances into the result
Watcher_Change_folded(ev, res) ==
    IF ev.kind = EventInstance
    THEN [Result |-> [res EXCEPT !.Instances = @ \o Watcher_add(ev)],
          Added |-> Watcher_add(ev),
          Updated |-> Watcher_update(ev), Removed |-> Watcher_remove(ev)]
    ELSE ZeroChange

\* the event branch without its test of the event's kind
Watcher_Change_anykind(ev, res) ==
    [Result |-> res, Added |-> Watcher_add(ev),
     Updated |-> Watcher_update(ev), Removed |-> Watcher_remove(ev)]

\* polarisResolver.Watcher: the Change of the event branch of the select
Watcher_Change(ev, res) ==
    IF ev.kind = EventInstance
    THEN [Result |-> res, Added |-> Watcher_add(ev),
          Updated |-> Watcher_update(ev), Removed |-> Watcher_remove(ev)]
    ELSE ZeroChange

\* a receive that drains the channel and keeps its first event
Receive_drain(ch) == [event |-> Head(ch), rest |-> <<>>]

\* a receive that takes the newest event of the channel
Receive_last(ch) == [event |-> ch[Len(ch)], rest |-> SubSeq(ch, 1, Len(ch) - 1)]

\* case event := <-watchRsp.EventChannel: the event received and what stays queued
Receive(ch) == [event |-> Head(ch), rest |-> Tail(ch)]

\* log.Fatalf of the standard library prints and calls os.Exit(1)
StdFatalf == {"exited"}

\* log.GetBaseLogger().Fatalf of the registry client either ends the process, or
\* returns, and the nil response is then dereferenced
BaseLoggerFatalf == {"exited", "panicked"}

-----------------------------------------------------------------------------
(* The invocations *)

OpResolve == "polarisResolver.Resolve"
OpWatcher == "polarisResolver.Watcher"
OpPolarisResolve == "PolarisResolver.Resolve"
Ops == {OpResolve, OpWatcher, OpPolarisResolve}

\* the descriptors callers resolve
Descriptors == {Descriptor(SvcOrders, FALSE, EmptyString),
                Descriptor(SvcGhost, TRUE, NsTest)}

\* no descriptor
NoTarget == Descriptor(EmptyString, FALSE, EmptyString)

\* the desc a caller passes to an operation: what the resolver's Target made
DescOf(o, t) ==
    IF o = OpPolarisResolve THEN PolarisResolver_Target(t)
    ELSE polarisResolver_Target(t)

GetInstancesRequest(ns, svc) == [api |-> "GetInstances", Namespace |-> ns, Service |-> svc]
WatchServiceRequest(ns, svc) == [api |-> "WatchService", Namespace |-> ns, Service |-> svc]

\* api.InstanceRegisterRequest as doHeartbeat reads it, and the requests a
\* service registers with
RegisterRequest(svc, ns, host, port) ==
    [Service |-> svc, Namespace |-> ns, Host |-> host, Port |-> port]
ZeroRegisterRequest == RegisterRequest(EmptyString, EmptyString, EmptyString, 0)
RegisterRequests ==
    {RegisterRequest(SvcOrders, ns, Host1, port) :
        ns \in {PolarisDefaultNamespace, NsTest}, port \in {8080, 9090}}

\* api.InstanceHeartbeatRequest: the heartbeat doHeartbeat builds from r
HeartbeatRequest(r) ==
    [Service |-> r.Service, Namespace |-> r.Namespace, Host |-> r.Host, Port |-> r.Port]
ZeroHeartbeatRequest == HeartbeatRequest(ZeroRegisterRequest)

\* NewPolarisResolver of either file: the fields of the resolver it returns
NewPolarisResolver ==
    [polarisResolver |-> [provider |-> "ProviderAPI", consumer |-> "ConsumerAPI"],
     PolarisResolver |-> [namespace |-> PolarisDefaultNamespace,
                          provider |-> "ProviderAPI",
                          consumer |-> "ConsumerAPI",
                          services |-> {},
                          instanceLock |-> "unlocked"]]

\* no invocation: every slot free
Init ==
    /\ resolver = NewPolarisResolver
    /\ proc = "running"
    /\ op = [c \in Calls |-> "none"]
    /\ pc = [c \in Calls |-> "None"]
    /\ target = [c \in Calls |-> NoTarget]
    /\ desc = [c \in Calls |-> EmptyString]
    /\ ctxDone = [c \in Calls |-> FALSE]
    /\ requests = [c \in Calls |-> <<>>]
    /\ response = [c \in Calls |-> NoAnswer]
    /\ eventChannel = [c \in Calls |-> <<>>]
    /\ reported = [c \in Calls |-> 0]
    /\ result = [c \in Calls |-> ZeroResult]
    /\ event = [c \in Calls |-> NoEvent]
    /\ consumed = [c \in Calls |-> 0]
    /\ ret = [c \in Calls |-> NoReturn]
    /\ retErr = [c \in Calls |-> NilError]
    /\ hbPc = "none"
    /\ hbCtxDone = FALSE
    /\ ins = ZeroRegisterRequest
    /\ heartbeat = ZeroHeartbeatRequest
    /\ tickerC = 0
    /\ sent = <<>>


\* a caller invokes operation o for descriptor t, with a context not yet cancelled
Invoke(c, o, t) ==
    /\ proc = "running"
    /\ pc[c] = "None"
    /\ op' = [op EXCEPT ![c] = o]
    /\ target' = [target EXCEPT ![c] = t]
    /\ desc' = [desc EXCEPT ![c] = DescOf(o, t)]
    /\ pc' = [pc EXCEPT ![c] = "Idle"]
    /\ UNCHANGED <<heartbeatVars, resolver>>
    /\ UNCHANGED <<proc, ctxDone, requests, response, eventChannel, reported, result,
                   event, consumed, ret, retErr>>

\* the caller cancels the context of a running invocation
Cancel(c) ==
    /\ proc = "running"
    /\ pc[c] \in {"Idle", "Subscribed"}
    /\ ~ctxDone[c]
    /\ ctxDone' = [ctxDone EXCEPT ![c] = TRUE]
    /\ UNCHANGED <<heartbeatVars, resolver>>
    /\ UNCHANGED <<proc, op, pc, target, desc, requests, response, eventChannel, reported, result,
                   event, consumed, ret, retErr>>

\* polarisResolver.Resolve asking the registry again when the first answer fails or
\* holds no instance
Resolve_retry(c, answer) ==
    /\ proc = "running"
    /\ op[c] = OpResolve
    /\ pc[c] = "Idle"
    /\ LET key == SplitDescription(desc[c])
           req == GetInstancesRequest(key.namespace, key.serviceName) IN
       requests' = [requests EXCEPT
                       ![c] = IF answer.err \/ answer.Instances.elems = <<>>
                              THEN @ \o <<req, req>> ELSE Append(@, req)]
    /\ response' = [response EXCEPT ![c] = answer]
    /\ IF answer.err
       THEN /\ proc' \in BaseLoggerFatalf
            /\ UNCHANGED <<pc, ret, retErr>>
       ELSE /\ LET out == Resolve_return(desc[c], Resolve_eps(answer.Instances)) IN
               /\ ret' = [ret EXCEPT ![c] = ReturnResult(out.ret)]
               /\ retErr' = [retErr EXCEPT ![c] = out.err]
            /\ pc' = [pc EXCEPT ![c] = "Terminal"]
            /\ UNCHANGED proc
    /\ UNCHANGED <<heartbeatVars, resolver>>
    /\ UNCHANGED <<op, target, desc, ctxDone, eventChannel, reported, result, event, consumed>>

\* polarisResolver.Resolve with the registry answering answer
Resolve(c, answer) ==
    /\ proc = "running"
    /\ op[c] = OpResolve
    /\ pc[c] = "Idle"
    /\ LET key == SplitDescription(desc[c]) IN
       requests' = [requests EXCEPT
                       ![c] = Append(@, GetInstancesRequest(key.namespace, key.serviceName))]
    /\ response' = [response EXCEPT ![c] = answer]
    /\ IF answer.err
       THEN /\ proc' \in BaseLoggerFatalf
            /\ UNCHANGED <<pc, ret, retErr>>
       ELSE /\ LET out == Resolve_return(desc[c], Resolve_eps(answer.Instances)) IN
               /\ ret' = [ret EXCEPT ![c] = ReturnResult(out.ret)]
               /\ retErr' = [retErr EXCEPT ![c] = out.err]
            /\ pc' = [pc EXCEPT ![c] = "Terminal"]
            /\ UNCHANGED proc
    /\ UNCHANGED <<heartbeatVars, resolver>>
    /\ UNCHANGED <<op, target, desc, ctxDone, eventChannel, reported, result, event, consumed>>

\* PolarisResolver.Resolve keeping the endpoints of a description in the services
\* map of the resolver and answering from it
PolarisResolve_cached(c, answer) ==
    /\ proc = "running"
    /\ op[c] = OpPolarisResolve
    /\ pc[c] = "Idle"
    /\ requests' = [requests EXCEPT
                       ![c] = Append(@, GetInstancesRequest(PolarisDefaultNamespace, desc[c]))]
    /\ response' = [response EXCEPT ![c] = answer]
    /\ IF answer.err
       THEN /\ proc' \in StdFatalf
            /\ UNCHANGED <<heartbeatVars, resolver>>
            /\ UNCHANGED <<pc, ret, retErr>>
       ELSE /\ LET services == resolver.PolarisResolver.services
                   cached == {e \in services : e.key = desc[c]}
                   eps == IF cached = {} THEN PolarisResolver_eps(answer.Instances)
                          ELSE (CHOOSE e \in cached : TRUE).eps
                   out == PolarisResolver_return(desc[c], eps) IN
               /\ resolver' = [resolver EXCEPT
                                  !.PolarisResolver.services =
                                      IF cached = {}
                                      THEN @ \cup {[key |-> desc[c], eps |-> eps]} ELSE @]
               /\ ret' = [ret EXCEPT ![c] = ReturnResult(out.ret)]
               /\ retErr' = [retErr EXCEPT ![c] = out.err]
            /\ pc' = [pc EXCEPT ![c] = "Terminal"]
            /\ UNCHANGED proc
    /\ UNCHANGED heartbeatVars
    /\ UNCHANGED <<op, target, desc, ctxDone, eventChannel, reported, result, event, consumed>>

\* PolarisResolver.Resolve with the registry answering answer
PolarisResolve(c, answer) ==
    /\ proc = "running"
    /\ op[c] = OpPolarisResolve
    /\ pc[c] = "Idle"
    /\ requests' = [requests EXCEPT
                       ![c] = Append(@, GetInstancesRequest(PolarisDefaultNamespace, desc[c]))]
    /\ response' = [response EXCEPT ![c] = answer]
    /\ IF answer.err
       THEN /\ proc' \in StdFatalf
            /\ UNCHANGED <<pc, ret, retErr>>
       ELSE /\ LET out == PolarisResolver_return(desc[c], PolarisResolver_eps(answer.Instances)) IN
               /\ ret' = [ret EXCEPT ![c] = ReturnResult(out.ret)]
               /\ retErr' = [retErr EXCEPT ![c] = out.err]
            /\ pc' = [pc EXCEPT ![c] = "Terminal"]
            /\ UNCHANGED proc
    /\ UNCHANGED <<heartbeatVars, resolver>>
    /\ UNCHANGED <<op, target, desc, ctxDone, eventChannel, reported, result, event, consumed>>

\* polarisResolver.Watcher up to its select: WatchService answers answer, the snapshot
\* is translated into result
Subscribe(c, answer) ==
    /\ proc = "running"
    /\ op[c] = OpWatcher
    /\ pc[c] = "Idle"
    /\ LET key == SplitDescription(desc[c]) IN
       requests' = [requests EXCEPT
                       ![c] = Append(@, WatchServiceRequest(key.namespace, key.serviceName))]
    /\ response' = [response EXCEPT ![c] = answer]
    /\ IF answer.err
       THEN /\ proc' \in BaseLoggerFatalf
            /\ UNCHANGED <<pc, result, reported>>
       ELSE /\ result' = [result EXCEPT
                             ![c] = Watcher_result(desc[c], Watcher_eps(answer.Instances))]
            /\ reported' = [reported EXCEPT ![c] = Len(answer.Instances.elems)]
            /\ pc' = [pc EXCEPT ![c] = "Subscribed"]
            /\ UNCHANGED proc
    /\ UNCHANGED <<heartbeatVars, resolver>>
    /\ UNCHANGED <<op, target, desc, ctxDone, eventChannel, event, consumed, ret, retErr>>

\* the registry pushes an event on the channel of an open subscription (the
\* invocation never reads its channel again once its select has taken a case)
Push(c, ev) ==
    /\ proc = "running"
    /\ pc[c] = "Subscribed"
    /\ Len(eventChannel[c]) < MaxQueued
    /\ reported[c] + EventSize(ev) <= MaxInstances
    /\ eventChannel' = [eventChannel EXCEPT ![c] = Append(@, ev)]
    /\ reported' = [reported EXCEPT ![c] = @ + EventSize(ev)]
    /\ UNCHANGED <<heartbeatVars, resolver>>
    /\ UNCHANGED <<proc, op, pc, target, desc, ctxDone, requests, response, result, event,
                   consumed, ret, retErr>>

\* a wait that looks at ctx.Done() only once an event is queued
SelectDone_afterEvent(c) ==
    /\ proc = "running"
    /\ pc[c] = "Subscribed"
    /\ ctxDone[c]
    /\ eventChannel[c] # <<>>
    /\ pc' = [pc EXCEPT ![c] = "Cancelled"]
    /\ UNCHANGED <<heartbeatVars, resolver>>
    /\ UNCHANGED <<proc, op, target, desc, ctxDone, requests, response, eventChannel, reported,
                   result, event, consumed, ret, retErr>>

\* a wait that is also left when the snapshot translated into no endpoint
SelectDone_emptySnapshot(c) ==
    /\ proc = "running"
    /\ pc[c] = "Subscribed"
    /\ ctxDone[c] \/ result[c].Instances = <<>>
    /\ pc' = [pc EXCEPT ![c] = "Cancelled"]
    /\ UNCHANGED <<heartbeatVars, resolver>>
    /\ UNCHANGED <<proc, op, target, desc, ctxDone, requests, response, eventChannel, reported,
                   result, event, consumed, ret, retErr>>

\* the select takes case <-ctx.Done()
SelectDone(c) ==
    /\ proc = "running"
    /\ pc[c] = "Subscribed"
    /\ ctxDone[c]
    /\ pc' = [pc EXCEPT ![c] = "Cancelled"]
    /\ UNCHANGED <<heartbeatVars, resolver>>
    /\ UNCHANGED <<proc, op, target, desc, ctxDone, requests, response, eventChannel, reported,
                   result, event, consumed, ret, retErr>>

\* a select that gives ctx.Done() priority: the event case is taken only while the
\* context is not cancelled
SelectEvent_unlessDone(c) ==
    /\ proc = "running"
    /\ pc[c] = "Subscribed"
    /\ ~ctxDone[c]
    /\ eventChannel[c] # <<>>
    /\ LET r == Receive(eventChannel[c]) IN
       /\ event' = [event EXCEPT ![c] = r.event]
       /\ eventChannel' = [eventChannel EXCEPT ![c] = r.rest]
       /\ consumed' = [consumed EXCEPT ![c] = @ + (Len(eventChannel[c]) - Len(r.rest))]
    /\ pc' = [pc EXCEPT ![c] = "EventReceived"]
    /\ UNCHANGED <<heartbeatVars, resolver>>
    /\ UNCHANGED <<proc, op, target, desc, ctxDone, requests, response, reported, result, ret,
                   retErr>>

\* the select takes case event := <-watchRsp.EventChannel
SelectEvent(c) ==
    /\ proc = "running"
    /\ pc[c] = "Subscribed"
    /\ eventChannel[c] # <<>>
    /\ LET r == Receive(eventChannel[c]) IN
       /\ event' = [event EXCEPT ![c] = r.event]
       /\ eventChannel' = [eventChannel EXCEPT ![c] = r.rest]
       /\ consumed' = [consumed EXCEPT ![c] = @ + (Len(eventChannel[c]) - Len(r.rest))]
    /\ pc' = [pc EXCEPT ![c] = "EventReceived"]
    /\ UNCHANGED <<heartbeatVars, resolver>>
    /\ UNCHANGED <<proc, op, target, desc, ctxDone, requests, response, reported, result, ret,
                   retErr>>

\* the ctx.Done() branch returns the Change it declared
ReturnCancelled(c) ==
    /\ proc = "running"
    /\ pc[c] = "Cancelled"
    /\ ret' = [ret EXCEPT ![c] = ReturnChange(Watcher_Change_done(result[c]))]
    /\ retErr' = [retErr EXCEPT ![c] = NilError]
    /\ pc' = [pc EXCEPT ![c] = "Terminal"]
    /\ UNCHANGED <<heartbeatVars, resolver>>
    /\ UNCHANGED <<proc, op, target, desc, ctxDone, requests, response, eventChannel, reported,
                   result, event, consumed>>

\* the event branch classifies the event and returns
ReturnEvent(c) ==
    /\ proc = "running"
    /\ pc[c] = "EventReceived"
    /\ ret' = [ret EXCEPT ![c] = ReturnChange(Watcher_Change(event[c], result[c]))]
    /\ retErr' = [retErr EXCEPT ![c] = NilError]
    /\ pc' = [pc EXCEPT ![c] = "Terminal"]
    /\ UNCHANGED <<heartbeatVars, resolver>>
    /\ UNCHANGED <<proc, op, target, desc, ctxDone, requests, response, eventChannel, reported,
                   result, event, consumed>>

\* the caller has taken what the invocation returned; its locals and its
\* subscription are gone
Collect(c) ==
    /\ proc = "running"
    /\ pc[c] = "Terminal"
    /\ op' = [op EXCEPT ![c] = "none"]
    /\ pc' = [pc EXCEPT ![c] = "None"]
    /\ target' = [target EXCEPT ![c] = NoTarget]
    /\ desc' = [desc EXCEPT ![c] = EmptyString]
    /\ ctxDone' = [ctxDone EXCEPT ![c] = FALSE]
    /\ requests' = [requests EXCEPT ![c] = <<>>]
    /\ response' = [response EXCEPT ![c] = NoAnswer]
    /\ eventChannel' = [eventChannel EXCEPT ![c] = <<>>]
    /\ reported' = [reported EXCEPT ![c] = 0]
    /\ result' = [result EXCEPT ![c] = ZeroResult]
    /\ event' = [event EXCEPT ![c] = NoEvent]
    /\ consumed' = [consumed EXCEPT ![c] = 0]
    /\ ret' = [ret EXCEPT ![c] = NoReturn]
    /\ retErr' = [retErr EXCEPT ![c] = NilError]
    /\ UNCHANGED <<heartbeatVars, resolver, proc>>

\* the steps of an invocation in flight when the registry picks among answers and
\* events
Run(c, answers, events) ==
    \/ Cancel(c)
    \/ \E answer \in answers : Resolve(c, answer)
    \/ \E answer \in answers : PolarisResolve(c, answer)
    \/ \E answer \in answers : Subscribe(c, answer)
    \/ \E ev \in events : Push(c, ev)
    \/ SelectDone(c)
    \/ SelectEvent(c)
    \/ ReturnCancelled(c)
    \/ ReturnEvent(c)
    \/ Collect(c)

\* the steps of invocation c when callers pick among ops and targets and the
\* registry among answers and events
Step(c, ops, targets, answers, events) ==
    \/ \E o \in ops, t \in targets : Invoke(c, o, t)
    \/ Run(c, answers, events)

\* one caller goroutine, which invokes the operations one after another
Callers == {1}

Next == \E c \in Callers : Step(c, Ops, Descriptors, Answers, Events)

Spec == Init /\ [][Next]_vars

\* the same caller against a registry whose instances differ in weight only:
\* every weight from -3 to MaxWeight, one instance per answer and per event
WeightInstances == {RawInstance(Host1, 8080, w, "tcp") : w \in -3..MaxWeight}
WeightAnswers == {OkAnswer(SliceOf(<<i>>)) : i \in WeightInstances}
WeightEvents ==
    {[kind |-> EventInstance, AddEvent |-> SliceOf(<<i>>),
      UpdateEvent |-> NoSubEvent, DeleteEvent |-> NoSubEvent] : i \in WeightInstances}
    \cup {[kind |-> EventInstance, AddEvent |-> NoSubEvent,
           UpdateEvent |-> SliceOf(<<UpdateOf(i)>>), DeleteEvent |-> NoSubEvent] :
             i \in WeightInstances}
    \cup {[kind |-> EventInstance, AddEvent |-> NoSubEvent,
           UpdateEvent |-> NoSubEvent, DeleteEvent |-> SliceOf(<<i>>)] : i \in WeightInstances}

NextWeights ==
    \E c \in Callers :
        Step(c, Ops, {Descriptor(SvcOrders, FALSE, EmptyString)}, WeightAnswers, WeightEvents)

SpecWeights == Init /\ [][NextWeights]_vars

\* the same caller resolving descriptors that differ in their namespace tag: none,
\* the default namespace, another namespace, a namespace holding the separator;
\* and in their service name: plain, or holding the separator
NsRegion == <<"e", "u", ":", "w">>
SvcOrdersV2 == <<"o", "r", "d", "e", "r", "s", ":", "2">>
TargetNames == {SvcOrders, SvcOrdersV2}
TargetNamespaces == {polarisDefaultNamespace, NsTest, NsRegion}
TargetDescriptors ==
    {Descriptor(n, FALSE, EmptyString) : n \in TargetNames}
    \cup {Descriptor(n, TRUE, ns) : n \in TargetNames, ns \in TargetNamespaces}
TargetAnswers == {OkAnswer(SliceOf(<<Inst1>>))}
TargetEvents == {OtherEvent}

NextTargets ==
    \E c \in Callers : Step(c, Ops, TargetDescriptors, TargetAnswers, TargetEvents)

SpecTargets == Init /\ [][NextTargets]_vars


\* a registry with few answers and few events: an empty snapshot or one instance,
\* an event of another kind or one added instance
FewAnswers == {OkAnswer(NilSlice), OkAnswer(SliceOf(<<Inst1>>))}
AddInst2 == [kind |-> EventInstance, AddEvent |-> SliceOf(<<Inst2>>),
             UpdateEvent |-> NoSubEvent, DeleteEvent |-> NoSubEvent]
FewEvents == {OtherEvent, AddInst2}

\* the same caller under the scheduling Go guarantees: a select with a ready case
\* takes a case, and a goroutine that can run its return statement runs it. The
\* caller need not cancel and the registry need not push.
NextFair == \E c \in Callers : Step(c, Ops, Descriptors, FewAnswers, FewEvents)

Fairness ==
    \A c \in Callers :
        /\ WF_vars(SelectDone(c) \/ SelectEvent(c))
        /\ WF_vars(ReturnCancelled(c))
        /\ WF_vars(ReturnEvent(c))

SpecFair == Init /\ [][NextFair]_vars /\ Fairness

\* two goroutines of the caller share the one resolver, each running its
\* invocations in any free slot: a slot is invoked only while fewer than two other
\* invocations are in flight; the steps interleave, against the registry of few
\* answers
InFlight == {c \in Calls : pc[c] # "None"}

InvokeConcurrent(c) ==
    /\ Cardinality(InFlight \ {c}) < 2
    /\ \E o \in Ops : Invoke(c, o, Descriptor(SvcOrders, FALSE, EmptyString))

NextConcurrent ==
    \E c \in Calls :
        \/ InvokeConcurrent(c)
        \/ Run(c, FewAnswers, FewEvents)

SpecConcurrent == Init /\ [][NextConcurrent]_vars

\* doHeartbeat is started for the registration request r: it creates its ticker
\* and copies service, namespace, host and port of r into its heartbeat
doHeartbeat(r) ==
    /\ proc = "running"
    /\ hbPc = "none"
    /\ ins' = r
    /\ tickerC' = 0
    /\ heartbeat' = HeartbeatRequest(r)
    /\ hbPc' = "loop"
    /\ UNCHANGED <<resolver, callVars, hbCtxDone, sent>>

\* the caller cancels the context of doHeartbeat, before or after it was started
CancelHeartbeat ==
    /\ proc = "running"
    /\ hbPc \in {"none", "loop"}
    /\ ~hbCtxDone
    /\ hbCtxDone' = TRUE
    /\ UNCHANGED <<resolver, callVars, hbPc, ins, heartbeat, tickerC, sent>>

\* the ticker fires: the tick waits in ticker.C, and is dropped when one waits
\* already. The ticker is never stopped, so it also fires after the loop returned.
TickerFires ==
    /\ proc = "running"
    /\ hbPc \in {"loop", "returned"}
    /\ tickerC' = 1
    /\ UNCHANGED <<resolver, callVars, hbPc, hbCtxDone, ins, heartbeat, sent>>

\* the owner of the registration request changes it to r while the loop runs
RegisterRequestChanged(r) ==
    /\ proc = "running"
    /\ hbPc = "loop"
    /\ r # ins
    /\ ins' = r
    /\ UNCHANGED <<resolver, callVars, hbPc, hbCtxDone, heartbeat, tickerC, sent>>

\* the loop takes case <-ctx.Done() and returns
doHeartbeat_Done ==
    /\ proc = "running"
    /\ hbPc = "loop"
    /\ hbCtxDone
    /\ hbPc' = "returned"
    /\ UNCHANGED <<resolver, callVars, hbCtxDone, ins, heartbeat, tickerC, sent>>

\* a loop that reads the registration request again for every heartbeat
doHeartbeat_Tick_reread(failed) ==
    /\ proc = "running"
    /\ hbPc = "loop"
    /\ tickerC = 1
    /\ Len(sent) < MaxHeartbeats
    /\ tickerC' = 0
    /\ sent' = Append(sent, [request |-> HeartbeatRequest(ins), failed |-> failed])
    /\ UNCHANGED <<resolver, callVars, hbPc, hbCtxDone, ins, heartbeat>>

\* the loop takes case <-ticker.C and calls provider.Heartbeat(heartbeat), whose
\* result (failed or not) it drops
doHeartbeat_Tick(failed) ==
    /\ proc = "running"
    /\ hbPc = "loop"
    /\ tickerC = 1
    /\ Len(sent) < MaxHeartbeats
    /\ tickerC' = 0
    /\ sent' = Append(sent, [request |-> heartbeat, failed |-> failed])
    /\ UNCHANGED <<resolver, callVars, hbPc, hbCtxDone, ins, heartbeat>>

\* the heartbeat goroutine of PolarisResolver, its caller and its ticker
NextHeartbeat ==
    \/ \E r \in RegisterRequests : doHeartbeat(r)
    \/ CancelHeartbeat
    \/ TickerFires
    \/ \E r \in RegisterRequests : RegisterRequestChanged(r)
    \/ doHeartbeat_Done
    \/ \E failed \in BOOLEAN : doHeartbeat_Tick(failed)

SpecHeartbeat == Init /\ [][NextHeartbeat]_vars

-----------------------------------------------------------------------------
(* Properties *)

ResolveOps == {OpResolve, OpPolarisResolve}

Returned(c) == pc[c] = "Terminal"

\* the instances the registry answered invocation c with (none for a nil list)
Reported(c) == response[c].Instances.elems

\* the invocation returned through the event branch / through the ctx.Done() branch
ReturnedByEvent(c) == op[c] = OpWatcher /\ Returned(c) /\ consumed[c] > 0
ReturnedByDone(c) == op[c] = OpWatcher /\ Returned(c) /\ consumed[c] = 0

\* the translations of a list of raw instances, one for one and in order
Translated(raws) == [i \in 1..Len(raws) |-> ChangePolarisInstanceToKitex(raws[i])]

DefaultOrders == <<"d", "e", "f", "a", "u", "l", "t", ":", "o", "r", "d", "e", "r", "s">>
Addr1 == <<"1", "0", ".", "0", ".", "0", ".", "1", ":", "8", "0", "8", "0">>
Addr2 == <<"1", "0", ".", "0", ".", "0", ".", "2", ":", "8", "0", "8", "0">>

\* C1: a Resolve that returns, returns the no-instances error exactly when the
\* registry's answer holds no instance (a nil or an empty list) and succeeds exactly
\* when it holds one or more; a success carries at least one endpoint, a failure the
\* zero Result.
C1_NoInstancesIffEmpty ==
    \A c \in Calls :
        (op[c] \in ResolveOps /\ Returned(c)) =>
            /\ (retErr[c] = NoInstancesError(desc[c])) <=> (Len(Reported(c)) = 0)
            /\ retErr[c].isNil <=> (Len(Reported(c)) > 0)
            /\ retErr[c].isNil => Len(ret[c].Result.Instances) > 0
            /\ ~retErr[c].isNil => ret[c] = ReturnResult(ZeroResult)

\* a Resolve has returned the error for an empty, non-nil list
C1_Witness ==
    \E c \in Calls :
        /\ op[c] = OpResolve /\ Returned(c)
        /\ response[c] = OkAnswer(SliceOf(<<>>))
        /\ retErr[c] = NoInstancesError(DefaultOrders)

\* C2: a Watch whose subscribe request failed has returned to its caller with a
\* RegistryError, and the process is still running.
C2_SubscribeFailureReturnsRegistryError ==
    \A c \in Calls :
        (op[c] = OpWatcher /\ requests[c] # <<>> /\ response[c].err) =>
            /\ proc = "running"
            /\ Returned(c)
            /\ retErr[c].kind = "RegistryError"

\* C3: a Resolve whose registry query failed has returned to its caller with a
\* RegistryError, which is not the no-instances error, and the process is still
\* running.
C3_QueryFailureReturnsRegistryError ==
    \A c \in Calls :
        (op[c] \in ResolveOps /\ requests[c] # <<>> /\ response[c].err) =>
            /\ proc = "running"
            /\ Returned(c)
            /\ retErr[c].kind = "RegistryError"

C5_ResultIsSnapshot ==
    \A c \in Calls :
        (ReturnedByEvent(c) /\ event[c].kind = EventInstance) =>
            /\ ret[c].Result.Cacheable
            /\ ret[c].Result.CacheKey = desc[c]
            /\ ret[c].Result.Instances = Translated(Reported(c))
            /\ \A i \in 1..Len(event[c].AddEvent.elems) :
                  (\A j \in 1..Len(Reported(c)) : Reported(c)[j] # event[c].AddEvent.elems[i])
                  => \A k \in 1..Len(ret[c].Result.Instances) :
                        ret[c].Result.Instances[k] # ChangePolarisInstanceToKitex(event[c].AddEvent.elems[i])
            /\ \A i \in 1..Len(event[c].DeleteEvent.elems) :
                  (\E j \in 1..Len(Reported(c)) : Reported(c)[j] = event[c].DeleteEvent.elems[i])
                  => \E k \in 1..Len(ret[c].Result.Instances) :
                        ret[c].Result.Instances[k] = ChangePolarisInstanceToKitex(event[c].DeleteEvent.elems[i])

\* a Watch with snapshot [Inst1] has returned the event that adds Inst2
C5_Witness ==
    \E c \in Calls :
        /\ ReturnedByEvent(c)
        /\ Reported(c) = <<Inst1>>
        /\ event[c].kind = EventInstance
        /\ event[c].AddEvent = SliceOf(<<Inst2>>)
        /\ ret[c].Added = <<ChangePolarisInstanceToKitex(Inst2)>>
        /\ ret[c].Removed = <<>>
        /\ ret[c].Result.Instances = <<ChangePolarisInstanceToKitex(Inst1)>>

\* C6: for an instance event, added, updated and removed are the translations of the
\* event's added instances, of the After of its update pairs and of its removed
\* instances, one for one and in order; a sub-event that is nil gives the empty list.
C6_DeltaListsAreTranslations ==
    \A c \in Calls :
        (ReturnedByEvent(c) /\ event[c].kind = EventInstance) =>
            /\ ret[c].Added = Translated(event[c].AddEvent.elems)
            /\ ret[c].Updated =
                  [i \in 1..Len(event[c].UpdateEvent.elems) |->
                      ChangePolarisInstanceToKitex(event[c].UpdateEvent.elems[i].After)]
            /\ ret[c].Removed = Translated(event[c].DeleteEvent.elems)
            /\ event[c].AddEvent.isNil => ret[c].Added = <<>>
            /\ event[c].UpdateEvent.isNil => ret[c].Updated = <<>>
            /\ event[c].DeleteEvent.isNil => ret[c].Removed = <<>>

\* a Watch has returned an event with one added and one updated instance and no
\* removed sub-event
C6_Witness ==
    \E c \in Calls :
        /\ ReturnedByEvent(c)
        /\ event[c].kind = EventInstance
        /\ event[c].AddEvent = SliceOf(<<Inst2>>)
        /\ event[c].UpdateEvent = SliceOf(<<UpdateOf(Inst1)>>)
        /\ event[c].DeleteEvent.isNil
        /\ ret[c].Updated = <<ChangePolarisInstanceToKitex(Inst1)>>
        /\ ret[c].Updated # <<ChangePolarisInstanceToKitex(UpdateOf(Inst1).Before)>>

\* C7: a Watch whose received event is of another kind than the instance event
\* returns the empty Change, without the snapshot, and no error.
C7_OtherKindGivesEmptyChange ==
    \A c \in Calls :
        (ReturnedByEvent(c) /\ event[c].kind # EventInstance) =>
            /\ ret[c] = ReturnChange(ZeroChange)
            /\ retErr[c] = NilError

\* a Watch with a non-empty snapshot has returned an event of another kind
C7_Witness ==
    \E c \in Calls :
        /\ ReturnedByEvent(c)
        /\ event[c] = OtherEvent
        /\ Len(Reported(c)) > 0
        /\ ret[c].Result = ZeroResult

\* the transitions of one Watch invocation
WatcherEdges ==
    {<<"Idle", "Subscribed">>, <<"Subscribed", "Cancelled">>,
     <<"Subscribed", "EventReceived">>, <<"Cancelled", "Terminal">>,
     <<"EventReceived", "Terminal">>}

\* C8: a Watch invocation moves Idle -> Subscribed -> Cancelled or EventReceived ->
\* Terminal and no other way (so it never waits twice); entering EventReceived
\* removes the first event of its channel and no other step of it removes any:
\* it returns with one event received through the event branch and with none
\* through the cancellation branch.
C8_SingleShot ==
    [][\A c \in Calls :
          (op[c] = OpWatcher /\ pc'[c] # pc[c]) =>
            /\ <<pc[c], pc'[c]>> \in WatcherEdges \cup {<<"Terminal", "None">>}
            /\ IF <<pc[c], pc'[c]>> = <<"Subscribed", "EventReceived">>
               THEN /\ eventChannel[c] # <<>>
                    /\ event'[c] = Head(eventChannel[c])
                    /\ eventChannel'[c] = Tail(eventChannel[c])
                    /\ consumed'[c] = consumed[c] + 1
               ELSE pc'[c] # "None" =>
                        /\ eventChannel'[c] = eventChannel[c]
                        /\ consumed'[c] = consumed[c]
            /\ <<pc[c], pc'[c]>> = <<"EventReceived", "Terminal">> => consumed'[c] = 1
            /\ <<pc[c], pc'[c]>> = <<"Cancelled", "Terminal">> => consumed'[c] = 0]_vars

\* a Watch has returned through the event branch and a later event is still queued
C8_Witness ==
    \E c \in Calls :
        /\ ReturnedByEvent(c)
        /\ consumed[c] = 1
        /\ Len(eventChannel[c]) = 1

\* C9: a successful Resolve returns cacheable = true, the desc it was called with as
\* cacheKey, and one endpoint per instance of the answer, in the answer's order,
\* with address host:port; the answer [(10.0.0.1,8080,w=0), (10.0.0.2,8080,w=5)]
\* for default:orders gives [10.0.0.1:8080 w=10, 10.0.0.2:8080 w=5].
C9_SuccessfulResolve ==
    \A c \in Calls :
        (op[c] \in ResolveOps /\ Returned(c) /\ retErr[c].isNil) =>
            /\ ret[c].Result.Cacheable
            /\ ret[c].Result.CacheKey = desc[c]
            /\ Len(ret[c].Result.Instances) = Len(Reported(c))
            /\ \A i \in 1..Len(Reported(c)) :
                  /\ ret[c].Result.Instances[i].Address =
                        Reported(c)[i].Host \o <<":">> \o Itoa(Reported(c)[i].Port)
                  /\ ret[c].Result.Instances[i].Network = Reported(c)[i].Protocol
            /\ Reported(c) = <<Inst1, Inst2>> =>
                  /\ Len(ret[c].Result.Instances) = 2
                  /\ ret[c].Result.Instances[1].Address = Addr1
                  /\ ret[c].Result.Instances[1].Weight = 10
                  /\ ret[c].Result.Instances[2].Address = Addr2
                  /\ ret[c].Result.Instances[2].Weight = 5

\* polarisResolver.Resolve has returned for default:orders and the scenario's answer
C9_Witness ==
    \E c \in Calls :
        /\ op[c] = OpResolve /\ Returned(c) /\ retErr[c].isNil
        /\ desc[c] = DefaultOrders
        /\ Reported(c) = <<Inst1, Inst2>>
        /\ ret[c].Result.CacheKey = DefaultOrders

\* weight w translated is weight t
WeightRule(w, t) == IF w <= 0 THEN t = 10 ELSE t = w

\* every element of raws went to the element of eps at its place under the weight rule
WeightsFollowRule(raws, eps) ==
    /\ Len(eps) = Len(raws)
    /\ \A i \in 1..Len(raws) : WeightRule(raws[i].Weight, eps[i].Weight) /\ eps[i].Weight > 0

\* C10: an endpoint's weight is 10 when its raw instance's weight is <= 0 and the raw
\* weight when that is > 0, so it is positive: in the endpoints of a successful
\* Resolve, and in the result, added, updated and removed lists of the Change a
\* Watch returns for an instance event.
C10_WeightDefault ==
    \A c \in Calls :
        /\ (op[c] \in ResolveOps /\ Returned(c) /\ retErr[c].isNil)
            => WeightsFollowRule(Reported(c), ret[c].Result.Instances)
        /\ (ReturnedByEvent(c) /\ event[c].kind = EventInstance) =>
            /\ WeightsFollowRule(Reported(c), ret[c].Result.Instances)
            /\ WeightsFollowRule(event[c].AddEvent.elems, ret[c].Added)
            /\ WeightsFollowRule([i \in 1..Len(event[c].UpdateEvent.elems) |->
                                     event[c].UpdateEvent.elems[i].After],
                                 ret[c].Updated)
            /\ WeightsFollowRule(event[c].DeleteEvent.elems, ret[c].Removed)

\* PolarisResolver.Resolve has returned weight 10 for an instance of weight 0
C10_Witness ==
    \E c \in Calls :
        /\ op[c] = OpPolarisResolve /\ Returned(c) /\ retErr[c].isNil
        /\ Len(Reported(c)) = 1
        /\ Reported(c)[1].Weight = 0
        /\ ret[c].Result.Instances[1].Weight = 10

\* the namespace of a descriptor: its namespace tag, or "default" when it has none
NamespaceOf(t) == IF t.hasNamespace THEN t.namespace ELSE <<"d", "e", "f", "a", "u", "l", "t">>

\* the canonical string of a descriptor: namespace, ":", service name
Canonical(t) == NamespaceOf(t) \o <<":">> \o t.ServiceName

\* the descriptor t tagged with the default namespace
TaggedDefault(t) == Descriptor(t.ServiceName, TRUE, <<"d", "e", "f", "a", "u", "l", "t">>)

\* C11: the string Target hands to an invocation is the descriptor's namespace (or
\* "default"), ":" and its service name; and it is the string of the same service
\* tagged with the default namespace when the descriptor has no namespace tag.
C11_TargetIsCanonical ==
    \A c \in Calls :
        pc[c] # "None" =>
            /\ desc[c] = Canonical(target[c])
            /\ ~target[c].hasNamespace => desc[c] = DescOf(op[c], TaggedDefault(target[c]))

\* polarisResolver.Target alone (Resolve and Watcher of src/resolver.go) gives the
\* canonical string, and the default namespace for a descriptor with no tag
C11_polarisResolverTargetIsCanonical ==
    \A c \in Calls :
        (pc[c] # "None" /\ op[c] # OpPolarisResolve) =>
            /\ desc[c] = Canonical(target[c])
            /\ ~target[c].hasNamespace => desc[c] = DescOf(op[c], TaggedDefault(target[c]))

\* PolarisResolver.Target gives the service name, whatever the namespace tag
C11_PolarisResolverTargetIsServiceName ==
    \A c \in Calls :
        (pc[c] # "None" /\ op[c] = OpPolarisResolve) => desc[c] = target[c].ServiceName

\* string s holds the separator
HasColon(s) == \E i \in 1..Len(s) : s[i] = ":"

\* the registry was asked about the namespace and the service name of descriptor t
AskedAbout(c, t) ==
    /\ Len(requests[c]) = 1
    /\ requests[c][1].Namespace = NamespaceOf(t)
    /\ requests[c][1].Service = t.ServiceName

\* C12: for a descriptor whose namespace holds no ":", the string of
\* polarisResolver.Target split on its first ":" is the descriptor's namespace (or
\* the default) and its service name, and every Resolve and Watch that has asked
\* the registry asked about exactly that namespace and service name.
C12_RoundTrip ==
    \A c \in Calls :
        (pc[c] # "None" /\ ~HasColon(NamespaceOf(target[c]))) =>
            /\ LET key == SplitDescription(polarisResolver_Target(target[c])) IN
                /\ key.namespace = NamespaceOf(target[c])
                /\ key.serviceName = target[c].ServiceName
            /\ requests[c] # <<>> => AskedAbout(c, target[c])

\* the same for Resolve and Watcher of src/resolver.go alone
C12_polarisResolverRoundTrip ==
    \A c \in Calls :
        (pc[c] # "None" /\ op[c] # OpPolarisResolve /\ ~HasColon(NamespaceOf(target[c]))) =>
            /\ LET key == SplitDescription(desc[c]) IN
                /\ key.namespace = NamespaceOf(target[c])
                /\ key.serviceName = target[c].ServiceName
            /\ requests[c] # <<>> => AskedAbout(c, target[c])

\* PolarisResolver.Resolve asks about the default namespace, whatever the tag
C12_PolarisResolverAsksDefault ==
    \A c \in Calls :
        (op[c] = OpPolarisResolve /\ requests[c] # <<>>) =>
            /\ Len(requests[c]) = 1
            /\ requests[c][1].Namespace = <<"d", "e", "f", "a", "u", "l", "t">>
            /\ requests[c][1].Service = target[c].ServiceName

\* without the condition on the namespace the round trip is lost
C12_RoundTripAnyNamespace ==
    \A c \in Calls :
        (pc[c] # "None" /\ op[c] # OpPolarisResolve) =>
            SplitDescription(desc[c]).namespace = NamespaceOf(target[c])

\* the ResolveResult invocation c handed to its caller on a success path: the result
\* of a Resolve that returned no error, the result a Watch built from its snapshot
\* and returned in a non-empty Change
HandedOut(c) ==
    /\ Returned(c)
    /\ retErr[c].isNil
    /\ op[c] \in ResolveOps \/ ret[c].Result # ZeroResult

\* C13: every ResolveResult handed out on a success path, the Change.Result a Watch
\* built from its snapshot included, has one endpoint or more.
C13_SuccessHasEndpoints ==
    \A c \in Calls : HandedOut(c) => Len(ret[c].Result.Instances) > 0

\* the results handed out by Resolve alone have one endpoint or more
C13_ResolveSuccessHasEndpoints ==
    \A c \in Calls :
        (HandedOut(c) /\ op[c] \in ResolveOps) => Len(ret[c].Result.Instances) > 0

\* invocation c has sent its request to the registry
Asked(c) ==
    \/ pc[c] \in {"Subscribed", "Cancelled", "EventReceived", "Terminal"}
    \/ response[c].err

\* the registry call of operation o
ApiOf(o) == IF o = OpWatcher THEN "WatchService" ELSE "GetInstances"

\* C14: an invocation sends the registry no request before its call and exactly one
\* request from then on, a Resolve one query and a Watch one subscribe request,
\* also when the request failed or was answered with no instance.
C14_NoRetry ==
    \A c \in Calls :
        /\ ~Asked(c) => requests[c] = <<>>
        /\ Asked(c) => /\ Len(requests[c]) = 1
                       /\ requests[c][1].api = ApiOf(op[c])

\* a subscribe request failed, and it was the only request of its Watch
C14_Witness ==
    \E c \in Calls :
        /\ op[c] = OpWatcher
        /\ response[c].err
        /\ proc # "running"
        /\ Len(requests[c]) = 1

\* C15: a Watch whose subscription is open and whose context is cancelled returns,
\* whether or not the registry ever sends an event.
C15_CancelledWatchReturns ==
    \A c \in Calls : (pc[c] = "Subscribed" /\ ctxDone[c]) ~> Returned(c)

\* a cancelled Watch has returned on a subscription the registry never sent an
\* event on
C15_Witness ==
    \E c \in Calls :
        /\ ReturnedByDone(c)
        /\ ctxDone[c]
        /\ eventChannel[c] = <<>>
        /\ reported[c] = Len(Reported(c))

\* what operation o returns for description d when the registry answered rsp and, for
\* a Watch, n events were received from its channel, the last of them ev
OwnReturn(o, d, rsp, ev, n) ==
    IF o = OpResolve
    THEN LET out == Resolve_return(d, Resolve_eps(rsp.Instances)) IN
         [ret |-> ReturnResult(out.ret), err |-> out.err]
    ELSE IF o = OpPolarisResolve
    THEN LET out == PolarisResolver_return(d, PolarisResolver_eps(rsp.Instances)) IN
         [ret |-> ReturnResult(out.ret), err |-> out.err]
    ELSE IF n = 0
    THEN [ret |-> ReturnChange(ZeroChange), err |-> NilError]
    ELSE [ret |-> ReturnChange(Watcher_Change(ev, Watcher_result(d, Watcher_eps(rsp.Instances)))),
          err |-> NilError]

\* the arguments, the locals and the subscription of invocation c
Locals(c) ==
    <<op[c], pc[c], target[c], desc[c], ctxDone[c], requests[c], response[c],
      eventChannel[c], reported[c], result[c], event[c], consumed[c], ret[c], retErr[c]>>

\* C16: in every step of every interleaving the fields of the resolver stay as
\* constructed, the step changes the arguments, locals and subscription of one
\* invocation at most, and an invocation that has returned has returned the value
\* its own description, its own registry answer and its own event give.
C16_NoSharedState ==
    [][/\ resolver' = resolver
       /\ \A c, d \in Calls : c # d => (Locals(c)' = Locals(c) \/ Locals(d)' = Locals(d))
       /\ \A c \in Calls :
              pc'[c] = "Terminal" =>
                  LET own == OwnReturn(op'[c], desc'[c], response'[c], event'[c], consumed'[c]) IN
                  /\ ret'[c] = own.ret
                  /\ retErr'[c] = own.err]_vars

\* two invocations in flight together have both returned, one a result with an
\* endpoint and the other the no-instances error
C16_Witness ==
    \E c, d \in Calls :
        /\ c # d
        /\ Returned(c) /\ Returned(d)
        /\ op[c] \in ResolveOps /\ op[d] \in ResolveOps
        /\ retErr[c].isNil /\ Len(ret[c].Result.Instances) = 1
        /\ ~retErr[d].isNil

\* C17: every Watch invocation sends its own subscribe request and starts on a
\* channel nothing was received from; the event it receives is the first event
\* queued on its own channel, the step takes nothing from the channel or the locals
\* of another invocation, and the Change it returns classifies that event.
C17_OwnFirstEvent ==
    [][\A c \in Calls :
          op'[c] = OpWatcher =>
            /\ <<pc[c], pc'[c]>> = <<"Idle", "Subscribed">> =>
                   /\ requests'[c] = <<WatchServiceRequest(SplitDescription(desc[c]).namespace,
                                                           SplitDescription(desc[c]).serviceName)>>
                   /\ eventChannel'[c] = <<>>
                   /\ consumed'[c] = 0
            /\ <<pc[c], pc'[c]>> = <<"Subscribed", "EventReceived">> =>
                   /\ eventChannel[c] # <<>>
                   /\ event'[c] = Head(eventChannel[c])
                   /\ \A d \in Calls \ {c} : Locals(d)' = Locals(d)
            /\ <<pc[c], pc'[c]>> = <<"EventReceived", "Terminal">> =>
                   ret'[c] = ReturnChange(Watcher_Change(event[c], result[c]))]_vars

\* a Watch has returned the Change of the first event of its channel while a later
\* event is queued behind it and another Watch has another event queued
C17_Witness ==
    \E c, d \in Calls :
        /\ c # d
        /\ ReturnedByEvent(c)
        /\ event[c] = AddInst2
        /\ eventChannel[c] = <<OtherEvent>>
        /\ ret[c].Added = Translated(<<Inst2>>)
        /\ op[d] = OpWatcher
        /\ pc[d] = "Subscribed"
        /\ eventChannel[d] = <<OtherEvent, AddInst2>>

\* C18: a Watch at its wait with its context cancelled and an event queued can take
\* either case of the select; the ctx.Done() case leads to the return of the empty
\* Change, the event case to the return of the classified event; and a Watch that
\* has returned has returned no error and has received one event at most.
C18_Arbitration ==
    \A c \in Calls :
        op[c] = OpWatcher =>
            /\ (pc[c] = "Subscribed" /\ ctxDone[c] /\ eventChannel[c] # <<>>) =>
                   (ENABLED SelectDone(c)) /\ (ENABLED SelectEvent(c))
            /\ pc[c] = "Cancelled" => ENABLED ReturnCancelled(c)
            /\ pc[c] = "EventReceived" => ENABLED ReturnEvent(c)
            /\ Returned(c) =>
                   /\ retErr[c] = NilError
                   /\ consumed[c] <= 1
                   /\ consumed[c] = 0 => ret[c] = ReturnChange(ZeroChange)
                   /\ consumed[c] = 1 =>
                          ret[c] = ReturnChange(Watcher_Change(event[c], result[c]))

\* both outcomes of the race: one Watch has returned the Change of an instance event
\* though its context was cancelled, another the empty Change though an event was
\* queued
C18_Witness ==
    \E c, d \in Calls :
        /\ ReturnedByEvent(c)
        /\ ctxDone[c]
        /\ event[c] = AddInst2
        /\ ret[c].Added # <<>>
        /\ ReturnedByDone(d)
        /\ eventChannel[d] # <<>>
        /\ ret[d] = ReturnChange(ZeroChange)

\* C19: a Watch past its wait has seen one of the two triggers: its context is
\* cancelled or it has received one event; and a Watch at its wait with its context
\* not cancelled and no event queued can take no step, whatever its snapshot.
C19_BlockedUntilTrigger ==
    \A c \in Calls :
        op[c] = OpWatcher =>
            /\ pc[c] = "Cancelled" => ctxDone[c]
            /\ pc[c] = "EventReceived" => consumed[c] = 1
            /\ Returned(c) => (ctxDone[c] \/ consumed[c] = 1)
            /\ (pc[c] = "Subscribed" /\ ~ctxDone[c] /\ eventChannel[c] = <<>>) =>
                   /\ ~ENABLED SelectDone(c)
                   /\ ~ENABLED SelectEvent(c)
                   /\ ~ENABLED ReturnCancelled(c)
                   /\ ~ENABLED ReturnEvent(c)

\* a Watch whose snapshot was empty and whose context is not cancelled has returned,
\* after an event
C19_Witness ==
    \E c \in Calls :
        /\ ReturnedByEvent(c)
        /\ ~ctxDone[c]
        /\ ~response[c].err
        /\ Reported(c) = <<>>
        /\ consumed[c] = 1

\* C20: the calls of provider.Heartbeat grow by one exactly in the steps in which the
\* running loop takes a tick from its ticker, and in no other step; the heartbeat
\* is built from service, namespace, host and port of the registration request the
\* loop is started with and every call carries it; the loop returns only with its
\* context cancelled; and once it has returned no call is added.
C20_HeartbeatLoop ==
    [][/\ (hbPc = "none" /\ hbPc' = "loop") =>
              /\ heartbeat'.Service = ins'.Service
              /\ heartbeat'.Namespace = ins'.Namespace
              /\ heartbeat'.Host = ins'.Host
              /\ heartbeat'.Port = ins'.Port
       /\ hbPc # "none" => heartbeat' = heartbeat
       /\ sent' # sent <=> (hbPc = "loop" /\ hbPc' = "loop" /\ tickerC = 1 /\ tickerC' = 0)
       /\ sent' # sent =>
              /\ Len(sent') = Len(sent) + 1
              /\ SubSeq(sent', 1, Len(sent)) = sent
       /\ \A i \in 1..Len(sent') : sent'[i].request = heartbeat'
       /\ hbPc' = "returned" => hbCtxDone'
       /\ hbPc = "returned" => (hbPc' = "returned" /\ sent' = sent)]_vars

\* the loop has sent two heartbeats, one of them failed, its registration request
\* was changed after the start, it has returned and a tick waits that nobody takes
C20_Witness ==
    /\ hbPc = "returned"
    /\ hbCtxDone
    /\ Len(sent) = 2
    /\ sent[1].failed /\ ~sent[2].failed
    /\ HeartbeatRequest(ins) # heartbeat
    /\ tickerC = 1

====
